---------------------------- MODULE Spec2Model ----------------------------
(***************************************************************************)
(* A model of netstring-parser (src/src/lib.rs): NetstringParser, the      *)
(* Netstring view it hands out, and the length scanner parse_length.       *)
(*                                                                         *)
(* Bytes are their numeric values (u8), slices are sequences (1-based; the *)
(* byte at Rust index i is element i + 1).  usize is modelled at the width *)
(* UsizeBits.                                                              *)
(***************************************************************************)
EXTENDS Integers, Sequences, FiniteSets, TLC

VARIABLES
    buf,        \* NetstringParser.buf: Vec<u8>, its length is the capacity
    len,        \* NetstringParser.len: number of live bytes, buf[0..len)
    view,       \* the outstanding Netstring values: records [offset, length]
    pending,    \* the caller's byte stream that is still to be fed
    stream,     \* the caller's whole byte stream (never changes)
    results,    \* payloads the caller copied out of the views it released
    out,        \* the last call the caller made, its argument and its result
    panicked    \* a call panicked (index out of bounds, arithmetic overflow)

vars == <<buf, len, view, pending, stream, results, out, panicked>>

----------------------------------------------------------------------------
(* Bounds of the model *)

\* width of usize in bits (Rust supports 16, 32 and 64)
UsizeBits == 16
\* the two buffer sizes of the general specification
SmallCap == 3
LargeCap == 9
\* the buffer size and the longest exhaustively enumerated stream of the
\* specification with every operation
MidCap == 4
MaxShort == 2
\* longest stream enumerated exhaustively over Alphabet
MaxLen == 4
\* longest payload enumerated exhaustively over PayloadAlphabet
MaxPayload == 2
\* most netstrings concatenated in one well-formed stream
MaxStrings == 2
\* buffer size of the specification with long length prefixes
LongCap == 32
\* longest run of one byte in the streams of that specification
MaxRun == 25

----------------------------------------------------------------------------
(* Bytes *)

COLON == 58
COMMA == 44
PLUS  == 43
MINUS == 45
DIGIT0 == 48
DIGIT9 == 57

USIZE_MAX == 2^UsizeBits - 1

Min(a, b) == IF a < b THEN a ELSE b

\* &s[from..to) with Rust's 0-based, half-open indices
Slice(s, from, to) == SubSeq(s, from + 1, to)

----------------------------------------------------------------------------
(* std::str::from_utf8, as used on the length prefix *)

IsCont(s, i) == i <= Len(s) /\ s[i] >= 128 /\ s[i] <= 191

\* number of bytes of the well-formed UTF-8 sequence that starts at s[i],
\* 0 when there is none
Utf8SeqLen(s, i) ==
    LET b == s[i] IN
    IF b < 128 THEN 1
    ELSE IF b >= 194 /\ b <= 223 THEN (IF IsCont(s, i + 1) THEN 2 ELSE 0)
    ELSE IF b = 224 THEN
        (IF i + 1 <= Len(s) /\ s[i + 1] >= 160 /\ s[i + 1] <= 191 /\ IsCont(s, i + 2)
         THEN 3 ELSE 0)
    ELSE IF b = 237 THEN
        (IF i + 1 <= Len(s) /\ s[i + 1] >= 128 /\ s[i + 1] <= 159 /\ IsCont(s, i + 2)
         THEN 3 ELSE 0)
    ELSE IF b >= 225 /\ b <= 239 THEN
        (IF IsCont(s, i + 1) /\ IsCont(s, i + 2) THEN 3 ELSE 0)
    ELSE IF b = 240 THEN
        (IF i + 1 <= Len(s) /\ s[i + 1] >= 144 /\ s[i + 1] <= 191
            /\ IsCont(s, i + 2) /\ IsCont(s, i + 3)
         THEN 4 ELSE 0)
    ELSE IF b >= 241 /\ b <= 243 THEN
        (IF IsCont(s, i + 1) /\ IsCont(s, i + 2) /\ IsCont(s, i + 3) THEN 4 ELSE 0)
    ELSE IF b = 244 THEN
        (IF i + 1 <= Len(s) /\ s[i + 1] >= 128 /\ s[i + 1] <= 143
            /\ IsCont(s, i + 2) /\ IsCont(s, i + 3)
         THEN 4 ELSE 0)
    ELSE 0

RECURSIVE Utf8ValidFrom(_, _)
Utf8ValidFrom(s, i) ==
    IF i > Len(s) THEN TRUE
    ELSE LET n == Utf8SeqLen(s, i) IN
         IF n = 0 THEN FALSE ELSE Utf8ValidFrom(s, i + n)

from_utf8_ok(s) == Utf8ValidFrom(s, 1)

----------------------------------------------------------------------------
(* str::parse::<usize>: optional leading '+', then decimal digits, checked *)
(* against overflow.  The result is the value, or -1 for Err.              *)

IsDigit(b) == b >= DIGIT0 /\ b <= DIGIT9

RECURSIVE ParseDigits(_, _, _)
ParseDigits(s, i, acc) ==
    IF i > Len(s) THEN acc
    ELSE IF ~IsDigit(s[i]) THEN -1                      \* InvalidDigit
    ELSE IF acc * 10 + (s[i] - DIGIT0) > USIZE_MAX THEN -1   \* PosOverflow
    ELSE ParseDigits(s, i + 1, acc * 10 + (s[i] - DIGIT0))

parse_usize(s) ==
    IF Len(s) = 0 THEN -1                               \* Empty
    ELSE IF Len(s) = 1 /\ s[1] \in {PLUS, MINUS} THEN -1     \* InvalidDigit
    ELSE IF s[1] = PLUS THEN ParseDigits(s, 2, 0)
    ELSE ParseDigits(s, 1, 0)

----------------------------------------------------------------------------
(* fn parse_length *)

NoColonLimit == 20

\* input.iter().position(|&b| b == b':'), 0-based, -1 for None
RECURSIVE PositionFrom(_, _)
PositionFrom(input, i) ==
    IF i > Len(input) THEN -1
    ELSE IF input[i] = COLON THEN i - 1
    ELSE PositionFrom(input, i + 1)

colon_position(input) == PositionFrom(input, 1)

\* TooLongWithoutColon with the limit itself counted as too long
TooLongAtLimit(input) == Len(input) >= NoColonLimit

\* if input.len() > 20
TooLongWithoutColon(input) == Len(input) > NoColonLimit

LenNone == [kind |-> "None", err |-> "", len |-> 0, rest |-> <<>>]
\* LenErr that reports every failure as the catch-all InvalidData
LenErrInvalidData(e) == [kind |-> "Err", err |-> "InvalidData", len |-> 0, rest |-> <<>>]

LenErr(e) == [kind |-> "Err", err |-> e, len |-> 0, rest |-> <<>>]
LenSome(n, r) == [kind |-> "Some", err |-> "", len |-> n, rest |-> r]

parse_length(input) ==
    LET colon_pos == colon_position(input) IN
    IF colon_pos = -1 THEN
        (IF TooLongWithoutColon(input) THEN LenErr("NoColonFound") ELSE LenNone)
    ELSE
        LET lenb == Slice(input, 0, colon_pos)
            rest == Slice(input, colon_pos + 1, Len(input))
        IN  IF ~from_utf8_ok(lenb) THEN LenErr("InvalidLength")
            ELSE IF parse_usize(lenb) = -1 THEN LenErr("InvalidLength")
            ELSE LenSome(parse_usize(lenb), rest)

----------------------------------------------------------------------------
(* struct NetstringParser, struct Netstring *)

capacity == Len(buf)

\* the unconsumed region &self.buf[..self.len]
\* the whole buffer, scratch bytes included
LiveWholeBuffer == buf

Live == Slice(buf, 0, len)

\* ParserBorrowed for a view that holds a shared reference
ParserNeverBorrowed == FALSE

\* Netstring holds `parser: &'a mut NetstringParser`: while a Netstring is
\* alive the borrow checker admits no other use of the parser
ParserBorrowed == view # {}

Call(op, res, data) == [op |-> op, res |-> res, data |-> data]

\* WriteFits that compares with the capacity, not with what is left of it
WriteFitsCapacity(n) == n <= capacity

\* WriteFits that keeps one byte free
WriteFitsStrictly(n) == n < capacity - len

\* fn write: data.len() <= remaining
WriteFits(n) == n <= capacity - len

\* self.buf[self.len..self.len + data.len()].copy_from_slice(data)
CopyFromSlice(b, at, data) ==
    [i \in 1..Len(b) |->
        IF i > at /\ i <= at + Len(data) THEN data[i - at] ELSE b[i]]

\* CopyWithin that moves nothing
CopyWithinNothing(b, count, end) == b

\* self.buf.copy_within(count..self.len, 0)
CopyWithin(b, count, end) ==
    [i \in 1..Len(b) |-> IF i <= end - count THEN b[count + i] ELSE b[i]]

\* saturating_sub that subtracts nothing
SaturatingSubNothing(a, b) == a

\* usize::saturating_sub
saturating_sub(a, b) == IF a >= b THEN a - b ELSE 0

\* DropCount without the trailing comma
DropCountPayloadOnly(v) == v.offset + v.length

\* the argument of discard in Drop for Netstring
DropCount(v) == v.offset + v.length + 1

\* impl Deref for Netstring
deref(v) == Slice(buf, v.offset, v.offset + v.length)

\* TerminatorIsComma that accepts any byte
TerminatorUnchecked(rest, n) == TRUE

\* rest[len] != b','
TerminatorIsComma(rest, n) == rest[n + 1] = COMMA

\* LenPlusOne without the byte of the trailing comma
LenPlusNothing(n) == n

\* len + 1 in parse_next: with overflow checks the addition panics at
\* usize::MAX, without them it wraps
LenPlusOne(n) == (n + 1) % (USIZE_MAX + 1)

\* ViewOffset that points at the colon
ViewOffsetAtColon(used, rest) == used - Len(rest) - 1

\* let offset = self.len - rest.len()
ViewOffset(used, rest) == used - Len(rest)

ParseOutcome(res, offset, length) ==
    [res |-> res, offset |-> offset, length |-> length]

\* fn parse_next on the live region `input`; overflow_checks is the build's
\* setting (on in debug builds, off in release builds)
parse_next(input, overflow_checks) ==
    LET r == parse_length(input) IN
    IF r.kind = "Err" THEN ParseOutcome(r.err, 0, 0)
    ELSE IF r.kind = "None" THEN ParseOutcome("None", 0, 0)
    ELSE IF overflow_checks /\ r.len = USIZE_MAX THEN ParseOutcome("Panic", 0, 0)
    ELSE IF Len(r.rest) < LenPlusOne(r.len) THEN ParseOutcome("None", 0, 0)
    ELSE IF r.len >= Len(r.rest) THEN ParseOutcome("Panic", 0, 0)
    ELSE IF ~TerminatorIsComma(r.rest, r.len) THEN ParseOutcome("MissingComma", 0, 0)
    ELSE ParseOutcome("View", ViewOffset(Len(input), r.rest), r.len)

----------------------------------------------------------------------------
(* The operations *)

\* NetstringParser::new(buf_size), with the caller holding the stream s
New(buf_size, s) ==
    /\ buf = [i \in 1..buf_size |-> 0]
    /\ len = 0
    /\ view = {}
    /\ pending = s
    /\ stream = s
    /\ results = <<>>
    /\ out = Call("new", "Ok", <<>>)
    /\ panicked = FALSE

\* parser.write(data), data being the next k bytes of the stream
Write(k) ==
    /\ ~panicked
    /\ ~ParserBorrowed
    /\ LET data == SubSeq(pending, 1, k) IN
       IF WriteFits(Len(data))
       THEN /\ buf' = CopyFromSlice(buf, len, data)
            /\ len' = len + Len(data)
            /\ pending' = SubSeq(pending, k + 1, Len(pending))
            /\ out' = Call("write", "Ok", data)
       ELSE /\ out' = Call("write", "BufferTooSmall", data)
            /\ UNCHANGED <<buf, len, pending>>
    /\ UNCHANGED <<view, stream, results, panicked>>

\* let b = parser.available_buffer(); the caller's I/O layer reads the next
\* k bytes of the stream into b
AvailableBuffer(k) ==
    /\ ~panicked
    /\ ~ParserBorrowed
    /\ k <= capacity - len
    /\ LET data == SubSeq(pending, 1, k) IN
       /\ buf' = CopyFromSlice(buf, len, data)
       /\ pending' = SubSeq(pending, k + 1, Len(pending))
       /\ out' = Call("available_buffer", "Ok", data)
    /\ UNCHANGED <<len, view, stream, results, panicked>>

\* parser.advance(count), count within the available region
Advance(count) ==
    /\ ~panicked
    /\ ~ParserBorrowed
    /\ count <= capacity - len
    /\ len' = len + count
    /\ out' = Call("advance", "Ok", <<count>>)
    /\ UNCHANGED <<buf, view, pending, stream, results, panicked>>

\* parser.is_buffer_full()
IsBufferFull ==
    /\ ~panicked
    /\ ~ParserBorrowed
    /\ out' = Call("is_buffer_full", IF len >= capacity THEN "true" ELSE "false", <<>>)
    /\ UNCHANGED <<buf, len, view, pending, stream, results, panicked>>

\* parser.is_buffer_empty()
IsBufferEmpty ==
    /\ ~panicked
    /\ ~ParserBorrowed
    /\ out' = Call("is_buffer_empty", IF len = 0 THEN "true" ELSE "false", <<>>)
    /\ UNCHANGED <<buf, len, view, pending, stream, results, panicked>>

\* ParseNext that drops the buffered bytes when it reports an error
ParseNextClearsOnError ==
    /\ ~panicked
    /\ ~ParserBorrowed
    /\ \E overflow_checks \in BOOLEAN :
         LET o == parse_next(Live, overflow_checks) IN
         /\ out' = Call("parse_next", o.res,
                        IF o.res = "View" THEN <<o.offset, o.length>> ELSE <<>>)
         /\ view' = IF o.res = "View"
                    THEN {[offset |-> o.offset, length |-> o.length]}
                    ELSE view
         /\ panicked' = (o.res = "Panic")
         /\ len' = IF o.res \in {"View", "None", "Panic"} THEN len ELSE 0
    /\ UNCHANGED <<buf, pending, stream, results>>

\* parser.parse_next()
ParseNext ==
    /\ ~panicked
    /\ ~ParserBorrowed
    /\ \E overflow_checks \in BOOLEAN :
         LET o == parse_next(Live, overflow_checks) IN
         /\ out' = Call("parse_next", o.res,
                        IF o.res = "View" THEN <<o.offset, o.length>> ELSE <<>>)
         /\ view' = IF o.res = "View"
                    THEN {[offset |-> o.offset, length |-> o.length]}
                    ELSE view
         /\ panicked' = (o.res = "Panic")
    /\ UNCHANGED <<buf, len, pending, stream, results>>

\* Clear that forgets to reset the cursor
ClearKeepsBytes ==
    /\ ~panicked
    /\ ~ParserBorrowed
    /\ out' = Call("clear", "Ok", <<>>)
    /\ UNCHANGED <<buf, len, view, pending, stream, results, panicked>>

\* parser.clear()
Clear ==
    /\ ~panicked
    /\ ~ParserBorrowed
    /\ len' = 0
    /\ out' = Call("clear", "Ok", <<>>)
    /\ UNCHANGED <<buf, view, pending, stream, results, panicked>>

\* &*ns, ns.as_bytes(): reading the payload through the view
Deref ==
    /\ ~panicked
    /\ \E v \in view :
         out' = Call("deref", "Ok", deref(v))
    /\ UNCHANGED <<buf, len, view, pending, stream, results, panicked>>

\* fn discard(count), as called by Drop for Netstring v
Discard(v, count) ==
    IF count > len
    THEN /\ panicked' = TRUE          \* copy_within: slice index starts after its end
         /\ out' = Call("drop", "Panic", <<count>>)
         /\ view' = view \ {v}
         /\ UNCHANGED <<buf, len>>
    ELSE /\ buf' = CopyWithin(buf, count, len)
         /\ len' = saturating_sub(len, count)
         /\ view' = view \ {v}
         /\ out' = Call("drop", "Ok", <<count>>)
         /\ panicked' = FALSE

\* the Netstring goes out of scope: Drop for Netstring
Drop ==
    /\ ~panicked
    /\ \E v \in view : Discard(v, DropCount(v))
    /\ UNCHANGED <<pending, stream, results>>

\* results.push(ns.to_vec()) and the end of the loop body, which drops ns
CollectAndDrop ==
    /\ ~panicked
    /\ \E v \in view :
         /\ results' = Append(results, deref(v))
         /\ Discard(v, DropCount(v))
    /\ UNCHANGED <<pending, stream>>

----------------------------------------------------------------------------
(* The caller's streams *)

\* all byte sequences over A of length at most n
AllSeqs(A, n) == UNION {[1..k -> A] : k \in 0..n}

RECURSIVE Run(_, _)
Run(b, n) == IF n = 0 THEN <<>> ELSE <<b>> \o Run(b, n - 1)

\* decimal digits of n, as format!("{}", n) writes them
RECURSIVE ToDecimal(_)
ToDecimal(n) ==
    IF n < 10 THEN <<DIGIT0 + n>>
    ELSE ToDecimal(n \div 10) \o <<DIGIT0 + (n % 10)>>

\* the wire form of payload p: "<L>:" + p + ","
Encode(p) == ToDecimal(Len(p)) \o <<COLON>> \o p \o <<COMMA>>

RECURSIVE EncodeAll(_)
EncodeAll(ps) == IF ps = <<>> THEN <<>> ELSE Encode(Head(ps)) \o EncodeAll(Tail(ps))

HELLO == <<104, 101, 108, 108, 111>>
WORLD == <<119, 111, 114, 108, 100>>
BYE   == <<98, 121, 101>>
\* a payload whose length takes two digits, holding a netstring itself
TWELVE == <<53, 58, 104, 101, 108, 108, 111, 44, 48, 58, 44, 58>>

Alphabet == {DIGIT0, DIGIT0 + 1, COLON, COMMA}

\* streams that are not enumerated by AllSeqs: the cases of tests.rs and
\* lengths at the edge of usize
Handpicked ==
    { Encode(HELLO),                                   \* "5:hello,"
      <<DIGIT0 + 5, COLON>> \o HELLO \o <<120>>,       \* "5:hellox"
      <<120, COLON, 98, 97, 100, COMMA>>,              \* "x:bad,"
      Encode(<<120>>) \o Encode(<<121>>),              \* "1:x,1:y,"
      <<PLUS>> \o Encode(HELLO),                       \* "+5:hello,"
      <<PLUS>> \o Encode(<<>>),                        \* "+0:,"
      <<PLUS, COLON, COMMA>>,                          \* "+:,"
      <<DIGIT0 + 1, PLUS, COLON, COMMA>>,              \* "1+:,"
      <<PLUS, PLUS, DIGIT0, COLON, COMMA>>,            \* "++0:,"
      <<DIGIT0 + 1, 32, COLON, 120, COMMA>>,           \* "1 :x,"
      <<MINUS>> \o Encode(<<120>>),                    \* "-1:x,"
      <<DIGIT0, DIGIT0>> \o Encode(<<120>>),           \* "001:x,"
      ToDecimal(USIZE_MAX) \o <<COLON, 120, COMMA>>,   \* usize::MAX
      ToDecimal(USIZE_MAX - 1) \o <<COLON, 120, COMMA>>,
      ToDecimal(USIZE_MAX) \o <<DIGIT0, COLON>>,       \* overflows usize
      <<195, 169, COLON>>,                             \* well-formed UTF-8, no digit
      <<255, COLON>> }                                 \* not UTF-8

Streams == AllSeqs(Alphabet, MaxLen) \cup Handpicked

ShortStreams ==
    AllSeqs({DIGIT0, COLON, COMMA}, MaxShort)
        \cup { Encode(<<>>),                            \* "0:,"
               Encode(<<>>) \o <<DIGIT0>>,              \* "0:,0"
               <<COLON>> \o Encode(<<>>),               \* ":0:,"
               <<COMMA>> \o Encode(<<>>),               \* ",0:,"
               Encode(<<>>) \o Encode(<<>>),            \* "0:,0:,"
               Encode(<<COMMA>>),                       \* "1:,,"
               <<PLUS>> \o Encode(<<COMMA>>) }          \* "+1:,,"

PayloadAlphabet == {COLON, COMMA, DIGIT0, 97}

Payloads == AllSeqs(PayloadAlphabet, MaxPayload) \cup {HELLO, TWELVE}

\* payloads of the streams that hold several netstrings
StreamPayloads == {<<>>, <<COMMA>>, HELLO}

\* one payload of every kind, short lists of a few payloads, and the lists
\* of tests.rs
PayloadLists ==
    {<<p>> : p \in Payloads}
        \cup AllSeqs(StreamPayloads, MaxStrings)
        \cup {<<HELLO, WORLD>>, <<HELLO, WORLD, BYE>>}

StreamCap == 32

RunBytes == {DIGIT0, DIGIT9, 120}

Tails ==
    { <<>>, <<COMMA, PLUS>>, <<COLON>>, Encode(<<>>), Encode(HELLO),
      <<COLON, 120>>,                                  \* no ',' where it is due
      ToDecimal(USIZE_MAX) \o <<COLON>> }              \* usize::MAX

LongStreams == {Run(b, n) \o t : b \in RunBytes, n \in 0..MaxRun, t \in Tails}

----------------------------------------------------------------------------
(* Specifications *)

\* every operation, on short streams and a small buffer
Init == \E s \in ShortStreams : New(MidCap, s)

Next ==
    \/ \E k \in 0..Len(pending) : Write(k)
    \/ \E k \in 1..Len(pending) : AvailableBuffer(k)
    \/ \E n \in 1..(capacity - len) : Advance(n)
    \/ IsBufferFull
    \/ IsBufferEmpty
    \/ ParseNext
    \/ Deref
    \/ Drop
    \/ Clear

Spec == Init /\ [][Next]_vars

\* the copying path: write, parse, read, release, clear
InitWrite == \E c \in {SmallCap, LargeCap} : \E s \in Streams : New(c, s)

NextWrite ==
    \/ \E k \in 0..Len(pending) : Write(k)
    \/ ParseNext
    \/ Deref
    \/ Drop
    \/ Clear

SpecWrite == InitWrite /\ [][NextWrite]_vars

\* the caller of tests.rs: writes chunks of a stream of well-formed
\* netstrings, parses, collects the payloads
InitStream == \E ps \in PayloadLists : New(StreamCap, EncodeAll(ps))

NextStream ==
    \/ \E k \in 1..Len(pending) : Write(k)
    \/ ParseNext
    \/ Deref
    \/ CollectAndDrop

SpecStream == InitStream /\ [][NextStream]_vars

\* the same caller, whose loop keeps running while it has something to do
SpecDrain == InitStream /\ [][NextStream]_vars /\ WF_vars(NextStream)

\* long runs without a colon
InitLong == \E s \in LongStreams : New(LongCap, s)

NextLong ==
    \/ \E k \in 1..Len(pending) : Write(k)
    \/ ParseNext
    \/ Deref
    \/ Drop

SpecLong == InitLong /\ [][NextLong]_vars

----------------------------------------------------------------------------
(* Round trip and chunking (SpecStream) *)

IsPrefix(s, t) == Len(s) <= Len(t) /\ s = SubSeq(t, 1, Len(s))

\* C1: Round trip.  When the stream is the wire form "<L>:" + p + "," of one
\* payload p, every view the parser returns reads exactly p; once the whole
\* wire form is written parse_next returns a view; and after the view is
\* released the caller holds exactly p, the buffer is empty and parse_next
\* returns "none yet".
RoundTrip ==
    \A p \in Payloads :
        stream = Encode(p) =>
            /\ \A v \in view : deref(v) = p
            /\ (out.op = "deref" => out.data = p)
            /\ (out.op = "parse_next" /\ pending = <<>> /\ results = <<>>
                    => out.res = "View")
            /\ (results # <<>> => results = <<p>> /\ len = 0 /\ pending = <<>>)
            /\ (out.op = "parse_next" /\ results # <<>> => out.res = "None")

\* C1 witness: a twelve-byte payload holding ':' and ',' went through
\* write, parse_next, release and a second parse_next
RoundTripWitness ==
    /\ stream = Encode(TWELVE)
    /\ results = <<TWELVE>>
    /\ out = Call("parse_next", "None", <<>>)
    /\ len = 0

\* the payloads obtained by writing all of s in one write into a buffer
\* that holds it and looping parse_next / release until "none yet"
RECURSIVE DrainFrom(_, _)
DrainFrom(b, used) ==
    LET o == parse_next(Slice(b, 0, used), TRUE) IN
    IF o.res # "View" THEN <<>>
    ELSE LET count == o.offset + o.length + 1 IN
         <<Slice(b, o.offset, o.offset + o.length)>>
            \o DrainFrom(CopyWithin(b, count, used), saturating_sub(used, count))

DrainWhole(s) == DrainFrom(s, Len(s))

\* C2: Chunking invariance.  Feeding a stream of well-formed netstrings in
\* chunks of any sizes, parsing and releasing in between, never makes
\* parse_next fail, collects the payloads in the order of the one-write
\* drain, and once every chunk is written and parse_next says "none yet"
\* the collected list equals the one-write list and the buffer is empty.
ChunkingInvariance ==
    /\ ~panicked
    /\ (out.op = "parse_next" => out.res \in {"View", "None"})
    /\ IsPrefix(results, DrainWhole(stream))
    /\ (pending = <<>> /\ out = Call("parse_next", "None", <<>>)
            => results = DrainWhole(stream) /\ len = 0)

\* C2 witness: the third chunk of tests.rs is in; "hello" and "world" are
\* collected, "3:by" waits for the last chunk "e,"
ChunkingWitness ==
    /\ stream = EncodeAll(<<HELLO, WORLD, BYE>>)
    /\ results = <<HELLO, WORLD>>
    /\ Live = <<DIGIT0 + 3, COLON, 98, 121>>
    /\ pending = <<101, COMMA>>
    /\ out = Call("parse_next", "None", <<>>)

----------------------------------------------------------------------------
(* Release and write (SpecWrite) *)

\* C3: Compaction correctness.  Releasing a view (offset, length) taken with
\* cursor len leaves len' = len - (offset + length + 1) and
\* buf'[i] = buf[offset + length + 1 + i] for every 0 <= i < len'; the buffer
\* is empty afterwards iff no byte followed the trailing ','.
CompactionCorrect ==
    [][\A v \in view :
        view' = {} =>
            LET count == v.offset + v.length + 1 IN
            /\ len' = len - count
            /\ \A i \in 0..(len' - 1) : buf'[i + 1] = buf[count + i + 1]
            /\ (len' = 0) <=> (len = count)]_vars

\* C3 witness: "1:x," was released while "1:y," followed it
CompactionWitness ==
    /\ stream = Encode(<<120>>) \o Encode(<<121>>)
    /\ out = Call("drop", "Ok", <<4>>)
    /\ Live = Encode(<<121>>)

\* C4: write(data) succeeds iff data.len() <= capacity - len.  On success
\* the data lies at buf[len .. len + data.len()), len grows by data.len()
\* and buf[0 .. len) is untouched; on failure the result is BufferTooSmall
\* and neither len nor any byte of buf changes.
WriteContract ==
    [][out'.op = "write" =>
        LET data == out'.data IN
        IF Len(data) <= capacity - len
        THEN /\ out'.res = "Ok"
             /\ len' = len + Len(data)
             /\ \A i \in 1..Len(data) : buf'[len + i] = data[i]
             /\ \A i \in 1..len : buf'[i] = buf[i]
        ELSE /\ out'.res = "BufferTooSmall"
             /\ len' = len
             /\ buf' = buf]_vars

\* C4 witness: a write of one byte more than the free space failed, with
\* bytes already in the buffer
WriteWitness ==
    /\ out.op = "write"
    /\ out.res = "BufferTooSmall"
    /\ len > 0
    /\ Len(out.data) = capacity - len + 1

----------------------------------------------------------------------------
(* The life of a view (Spec) *)

\* C5: View lifecycle.  At most one view is outstanding.  While a view is
\* outstanding the only steps are reads through it, which see the same
\* bytes every time and leave the parser as it is, and its release.  The
\* step that returns a view compacts nothing; compaction (a drop) happens
\* only as the release of an outstanding view, which ends that view.
ViewLifecycle ==
    [][/\ Cardinality(view) <= 1
       /\ Cardinality(view') <= 1
       /\ (view # {} =>
            \/ /\ out'.op = "deref"
               /\ UNCHANGED <<buf, len, view>>
               /\ \A v \in view : out'.data = deref(v)
            \/ /\ out'.op = "drop"
               /\ view' = {})
       /\ (view = {} /\ view' # {} =>
            /\ out'.op = "parse_next"
            /\ UNCHANGED <<buf, len>>)
       /\ (out'.op = "drop" => view # {} /\ view' = {})
       /\ (out'.op \in {"write", "advance", "clear", "parse_next", "available_buffer"}
            => view = {})]_vars

\* C5 witness: a view was returned, read and released, and bytes remain
ViewLifecycleWitness ==
    /\ out.op = "drop"
    /\ view = {}
    /\ len > 0

----------------------------------------------------------------------------
(* Outcomes of parse_next (SpecWrite) *)

\* the length prefix and what follows the first colon, for a region that
\* holds a colon
PrefixOf(s) == Slice(s, 0, colon_position(s))
RestOf(s) == Slice(s, colon_position(s) + 1, Len(s))

AllDigits(s) == \A i \in 1..Len(s) : IsDigit(s[i])

\* the number a run of digits denotes, or USIZE_MAX + 1 when it is larger
\* than USIZE_MAX
RECURSIVE DecimalValue(_)
DecimalValue(s) ==
    IF s = <<>> THEN 0
    ELSE Min(USIZE_MAX + 1,
             DecimalValue(SubSeq(s, 1, Len(s) - 1)) * 10 + (s[Len(s)] - DIGIT0))

\* s is a proper prefix of a well-formed netstring whose length prefix has
\* at most 20 digits and fits usize: nothing, digits only, or digits, ':'
\* and at most the whole payload without its ','
ProperPrefixOfNetstring(s) ==
    IF colon_position(s) = -1
    THEN Len(s) <= 20 /\ AllDigits(s) /\ DecimalValue(s) <= USIZE_MAX
    ELSE /\ PrefixOf(s) # <<>>
         /\ Len(PrefixOf(s)) <= 20
         /\ AllDigits(PrefixOf(s))
         /\ DecimalValue(PrefixOf(s)) <= USIZE_MAX
         /\ Len(RestOf(s)) <= DecimalValue(PrefixOf(s))

\* C6: Insufficient data is not an error.  Whenever the unconsumed region
\* is a proper prefix of a well-formed netstring whose length prefix has at
\* most 20 digits and fits usize, parse_next returns "none yet".
InsufficientDataIsNone ==
    out.op = "parse_next" /\ ProperPrefixOfNetstring(Live) => out.res = "None"

\* C7: a length prefix that is not a non-empty run of ASCII digits makes
\* parse_next fail with InvalidLength.
BadPrefixIsInvalidLength ==
    out.op = "parse_next" /\ colon_position(Live) # -1
            /\ (PrefixOf(Live) = <<>> \/ ~AllDigits(PrefixOf(Live)))
        => out.res = "InvalidLength"

----------------------------------------------------------------------------
(* Long regions without a colon, long length prefixes (SpecLong) *)

\* C9: No-colon threshold.  When the unconsumed region holds no ':',
\* parse_next fails with NoColonFound if the region has 21 or more bytes
\* and returns "none yet" if it has 20 or fewer, whatever the bytes are.
NoColonThreshold ==
    out.op = "parse_next" /\ (\A i \in 1..len : buf[i] # 58)
        => /\ (len >= 21 => out.res = "NoColonFound")
           /\ (len <= 20 => out.res = "None")

\* C9 witness: 21 bytes without a colon, not digits, gave NoColonFound
NoColonWitness ==
    /\ len = 21
    /\ Live = Run(120, 21)
    /\ out = Call("parse_next", "NoColonFound", <<>>)

\* C10: a length prefix longer than 20 bytes is always rejected: when the
\* first ':' of the unconsumed region has more than 20 bytes before it,
\* parse_next fails with NoColonFound.
LongPrefixIsNoColonFound ==
    out.op = "parse_next" /\ colon_position(Live) > 20
        => out.res = "NoColonFound"

----------------------------------------------------------------------------
(* Failed parses and clear (SpecWrite) *)

\* C11: a parse_next that returns an error or "none yet" leaves len, the
\* buffer and the (absent) view as they are, and a parse_next that directly
\* follows another one returns the same outcome.
ParseFailureIsStable ==
    [][out'.op = "parse_next" /\ out'.res \notin {"View", "Panic"} =>
        /\ len' = len
        /\ buf' = buf
        /\ view' = view
        /\ (out.op = "parse_next" => out'.res = out.res)]_vars

\* C11 witness: "x:bad," is buffered and parse_next reported InvalidLength
ParseFailureWitness ==
    /\ Live = <<120, COLON, 98, 97, 100, COMMA>>
    /\ out = Call("parse_next", "InvalidLength", <<>>)

\* the payloads p whose wire form "<L>:" + p + "," is exactly d
PayloadsOfWire(d) ==
    {p \in {SubSeq(d, k, Len(d) - 1) : k \in 1..Len(d)} : Encode(p) = d}

\* C12: clear() recovers from any state.  clear sets len to 0; a parse_next
\* right after it returns "none yet"; a write of up to the full capacity
\* right after it succeeds and makes the written data the whole unconsumed
\* region; and a well-formed netstring written into the emptied buffer is
\* parsed to a view that reads its payload, whatever bytes were discarded.
ClearRecovers ==
    [][/\ (out'.op = "clear" => len' = 0 /\ view' = {})
       /\ (out.op = "clear" /\ out'.op = "parse_next" => out'.res = "None")
       /\ (out.op = "clear" /\ out'.op = "write" /\ Len(out'.data) <= capacity
            => out'.res = "Ok" /\ Live' = out'.data)
       /\ (out.op = "write" /\ out.res = "Ok" /\ Live = out.data
                /\ out'.op = "parse_next"
            => \A p \in PayloadsOfWire(out.data) :
                /\ out'.res = "View"
                /\ Slice(buf', out'.data[1], out'.data[1] + out'.data[2]) = p)]_vars

\* C12 witness: ":" made parse_next fail, clear discarded it, and "0:,"
\* then filled the whole buffer and was parsed
ClearWitness ==
    /\ stream = <<COLON>> \o Encode(<<>>)
    /\ capacity = SmallCap
    /\ Live = Encode(<<>>)
    /\ pending = <<>>
    /\ view # {}

----------------------------------------------------------------------------
(* Cursor and view invariants *)

\* C13: Cursor invariant (Spec).  0 <= len <= capacity in every reachable
\* state; is_buffer_full() answers true exactly when len = capacity and
\* is_buffer_empty() exactly when len = 0.
CursorInvariant ==
    /\ 0 <= len
    /\ len <= capacity
    /\ (out.op = "is_buffer_full" => ((out.res = "true") <=> (len = capacity)))
    /\ (out.op = "is_buffer_empty" => ((out.res = "true") <=> (len = 0)))

\* C13 witness: advance moved the cursor to the capacity and
\* is_buffer_full() answered true
CursorWitness ==
    /\ len = capacity
    /\ len > Len(stream) - Len(pending)
    /\ out = Call("is_buffer_full", "true", <<>>)

\* C14: View invariant (SpecWrite).  Every view returned by parse_next has
\* offset + length + 1 <= len, its offset is the index just after the first
\* ':' and buf[offset + length] is ','.
ViewInvariant ==
    \A v \in view :
        /\ v.offset + v.length + 1 <= len
        /\ v.offset = colon_position(Live) + 1
        /\ v.offset >= 0 /\ v.length >= 0
        /\ buf[v.offset + v.length + 1] = 44

\* C14 witness: the view of "hello" in "5:hello,"
ViewInvariantWitness ==
    /\ Live = Encode(HELLO)
    /\ view = {[offset |-> 2, length |-> 5]}
    /\ out.op = "deref"

----------------------------------------------------------------------------
(* Length arithmetic and oversized declarations (SpecWrite) *)

\* the region starts with a non-empty run of digits followed by ':'
HasDigitPrefix(s) ==
    colon_position(s) # -1 /\ PrefixOf(s) # <<>> /\ AllDigits(PrefixOf(s))

\* C15: Length arithmetic does not overflow.  A digits-only prefix whose
\* value is above usize::MAX fails with InvalidLength; for every value up to
\* and including usize::MAX, parse_next returns "none yet" when fewer than
\* that value plus one bytes follow the ':', and no call panics.
LengthArithmeticSafe ==
    out.op = "parse_next" /\ HasDigitPrefix(Live) =>
        /\ (DecimalValue(PrefixOf(Live)) > USIZE_MAX => out.res = "InvalidLength")
        /\ (DecimalValue(PrefixOf(Live)) <= USIZE_MAX
                /\ Len(RestOf(Live)) < DecimalValue(PrefixOf(Live)) + 1
            => out.res = "None")

\* the region declares a netstring whose wire size, digits + ':' + length
\* + ',', is larger than the buffer
Oversized(s, cap) ==
    /\ HasDigitPrefix(s)
    /\ DecimalValue(PrefixOf(s)) <= USIZE_MAX
    /\ Len(PrefixOf(s)) + 1 + DecimalValue(PrefixOf(s)) + 1 > cap

\* C16: Oversized declaration stalls.  While the buffered length prefix
\* declares a netstring larger than the capacity, every parse_next returns
\* "none yet", and once the buffer is full every non-empty write fails with
\* BufferTooSmall.
OversizedStalls ==
    [][/\ (out'.op = "parse_next" /\ Oversized(Live, capacity) => out'.res = "None")
       /\ (out'.op = "write" /\ Oversized(Live, capacity) /\ len = capacity
                /\ out'.data # <<>>
            => out'.res = "BufferTooSmall")]_vars

----------------------------------------------------------------------------
(* The error variants parse_next returns (SpecLong) *)

----------------------------------------------------------------------------
(* parse_next reads the unconsumed region only (SpecWrite) *)

\* a length prefix with the one leading '+' removed
SignedDigits(p) == IF p # <<>> /\ p[1] = PLUS THEN Tail(p) ELSE p

\* what a parse of the region s yields, told from s alone
ExpectedOutcome(s) ==
    IF colon_position(s) = -1
    THEN Call("parse_next", IF Len(s) > 20 THEN "NoColonFound" ELSE "None", <<>>)
    ELSE LET d == SignedDigits(PrefixOf(s))
             n == DecimalValue(d)
             rest == RestOf(s)
         IN  IF d = <<>> \/ ~AllDigits(d) \/ n > USIZE_MAX
             THEN Call("parse_next", "InvalidLength", <<>>)
             ELSE IF n = USIZE_MAX THEN Call("parse_next", "Panic", <<>>)
             ELSE IF Len(rest) < n + 1 THEN Call("parse_next", "None", <<>>)
             ELSE IF rest[n + 1] # COMMA
             THEN Call("parse_next", "MissingComma", <<>>)
             ELSE Call("parse_next", "View", <<colon_position(s) + 1, n>>)

\* C18: no cached scan state.  The outcome of parse_next (a view with its
\* offset and length, "none yet", or the error variant) is a function of
\* buf[0..len) alone, whatever the capacity, the scratch bytes buf[len..] and
\* the operations that came before.
OutcomeFromLiveBytes ==
    out.op = "parse_next" => out = ExpectedOutcome(Slice(buf, 0, len))

\* C18 witness: after a clear or a drop the scratch bytes still hold a whole
\* netstring, and parse_next on the empty region answers "none yet"
OutcomeFromLiveBytesWitness ==
    /\ len = 0
    /\ Slice(buf, 0, 3) = Encode(<<>>)
    /\ out = Call("parse_next", "None", <<>>)

----------------------------------------------------------------------------
(* Draining (SpecDrain) *)

\* C19: draining terminates.  Every release of a view decreases len by at
\* least 3, so the views released so far, three bytes each, the bytes still
\* buffered and the bytes still to be written never exceed the stream; and
\* the loop over a stream of whole netstrings ends with nothing to write,
\* no view and an empty buffer.
DrainTerminates ==
    /\ [][out'.op = "drop" => len' <= len - 3]_vars
    /\ [](3 * Len(results) + len + Len(pending) <= Len(stream))
    /\ <>[](pending = <<>> /\ view = {} /\ len = 0)

\* C19 witness: the three netstrings of parse_multiple_netstrings_in_chunks
\* drained, the last parse_next answering "none yet"
DrainWitness ==
    /\ results = <<HELLO, WORLD, BYE>>
    /\ pending = <<>>
    /\ len = 0
    /\ out = Call("parse_next", "None", <<>>)

=============================================================================
